---- MODULE Spec2Model ----
(***************************************************************************)
(* Model of pretty_tracing_subscriber (src/src/lib.rs): the derivation of  *)
(* the level filter from the --quiet/--verbose occurrence counts, and the  *)
(* EventFormatter that renders one event as one line of text.              *)
(*                                                                         *)
(* Text is a sequence of one-character strings; the introducer of an ANSI  *)
(* escape sequence is one element of such a sequence (CSI).  Option<T> is  *)
(* a sequence of length at most one: None is << >>, Some(v) is <<v>>.      *)
(***************************************************************************)
EXTENDS Integers, Sequences, FiniteSets, TLC

VARIABLES
    debug_assertions,   \* build mode: cfg!(debug_assertions)
    verbosity,          \* the Verbosity argument of init: quiet, verbose, log_filters
    root_module,        \* the root_module argument of init
    decision,           \* Option of the filter installed by init
    formatter,          \* Option of the EventFormatter installed by init
    pc,                 \* position: "start", "idle", or the step of format_event
    event,              \* Option of the event being formatted
    current,            \* Option of the id of the span ctx.lookup_current() yields
    now,                \* the reading of Local::now() for this call
    f,                  \* the output sink of this call
    segs,               \* what module(), file() and the span lookup returned
    steps,              \* the steps of this call that wrote, with what they wrote
    result              \* Option of the value format_event returned

vars == <<debug_assertions, verbosity, root_module, decision, formatter, pc,
          event, current, now, f, segs, steps, result>>

None == << >>
Some(v) == <<v>>

----------------------------------------------------------------------------
(* Bounds of the model *)

\* largest occurrence count of --quiet / --verbose drawn under Spec
MaxFlag == 0
\* the sink's failing write call is drawn from 1..MaxFail (0: no call fails)
MaxFail == 14

U8_MAX == 255

----------------------------------------------------------------------------
(* Verbosity -> LevelFilter *)

LevelFilters == <<"OFF", "ERROR", "WARN", "INFO", "DEBUG", "TRACE">>

\* position of a LevelFilter in the order OFF < ERROR < ... < TRACE
Ord(l) == CHOOSE i \in 1..Len(LevelFilters) : LevelFilters[i] = l

DEFAULT_VERBOSITY == IF debug_assertions THEN 4 ELSE 2

\* u8::checked_add and u8::checked_sub
checked_add(a, b) == IF a + b > U8_MAX THEN None ELSE Some(a + b)
checked_sub(a, b) == IF a - b < 0 THEN None ELSE Some(a - b)

\* a plausible slip: the overflow of the addition clamps to the wrong end
Into_overflow_off(v) ==
    LET sum == checked_add(v.verbose, DEFAULT_VERBOSITY) IN
    IF sum = None THEN "OFF"
    ELSE LET d == checked_sub(sum[1], v.quiet) IN
         IF d = None \/ d = Some(0) THEN "OFF"
         ELSE IF d[1] >= 5 THEN "TRACE" ELSE LevelFilters[d[1] + 1]

\* a plausible slip: the arms of the match are off by one level
Into_shifted(v) ==
    LET sum == checked_add(v.verbose, DEFAULT_VERBOSITY) IN
    IF sum = None THEN "TRACE"
    ELSE LET d == checked_sub(sum[1], v.quiet) IN
         IF d = None \/ d = Some(0) THEN "OFF"
         ELSE IF d[1] >= 6 THEN "TRACE" ELSE LevelFilters[d[1]]

\* impl Into<LevelFilter> for Verbosity
Into(v) ==
    LET sum == checked_add(v.verbose, DEFAULT_VERBOSITY) IN
    IF sum = None THEN "TRACE"
    ELSE LET d == checked_sub(sum[1], v.quiet) IN
         CASE d = Some(1) -> "ERROR"
           [] d = Some(2) -> "WARN"
           [] d = Some(3) -> "INFO"
           [] d = Some(4) -> "DEBUG"
           [] d = Some(5) -> "TRACE"
           [] d # None /\ d[1] >= 6 /\ d[1] <= U8_MAX -> "TRACE"
           [] d = Some(0) \/ d = None -> "OFF"

Threshold(l) == [kind |-> "Threshold", level |-> l]
Expression(e) == [kind |-> "Expression", expr |-> e]

\* a plausible slip: the counts are consulted before the filter expression
Filter_counts_first(v) ==
    IF v.log_filters # None /\ v.quiet = 0 /\ v.verbose = 0
        THEN Expression(v.log_filters[1])
        ELSE Threshold(Into(v))

\* the filter init installs on the registry
Filter(v) ==
    IF v.log_filters # None
        THEN Expression(v.log_filters[1])
        ELSE Threshold(Into(v))

\* EventFormatter::new
new(root, verbose) == [root |-> root, verbose |-> verbose]

----------------------------------------------------------------------------
(* Text *)

Max(S) == CHOOSE x \in S : \A y \in S : y <= x

DigitChars == <<"0", "1", "2", "3", "4", "5", "6", "7", "8", "9">>

\* Display of an unsigned integer: its decimal digits, no padding
RECURSIVE Dec(_)
Dec(n) == IF n < 10 THEN <<DigitChars[n + 1]>>
          ELSE Dec(n \div 10) \o <<DigitChars[(n % 10) + 1]>>

\* the decimal digits of n, zero-padded on the left to width
RECURSIVE Pad(_, _)
Pad(n, width) == IF Len(Dec(n)) >= width THEN Dec(n)
                 ELSE <<"0">> \o Pad(n, width - 1)

\* str::starts_with
starts_with(s, p) == Len(p) <= Len(s) /\ SubSeq(s, 1, Len(p)) = p

\* str::get(n..): None when n is past the end (text here is ASCII)
get_from(s, n) == IF n <= Len(s) THEN Some(SubSeq(s, n + 1, Len(s))) ELSE None

\* std::path::MAIN_SEPARATOR on the targets the crate is built for here
MAIN_SEPARATOR == "/"

\* str::split(MAIN_SEPARATOR).last(): what follows the last separator
split_last(s) ==
    LET at == {i \in 1..Len(s) : s[i] = MAIN_SEPARATOR}
        k  == IF at = {} THEN 0 ELSE Max(at)
    IN  Some(SubSeq(s, k + 1, Len(s)))

\* ansi_term: an escape sequence is the introducer (one element of the text),
\* the codes of the style separated by semicolons, and the letter m
CSI == "ESC["
RESET == <<CSI, "0", "m">>
Bold == <<"1">>
RedBold == <<"1", ";", "3", "1">>
YellowBold == <<"1", ";", "3", "3">>
GreenBold == <<"1", ";", "3", "2">>
BlueBold == <<"1", ";", "3", "4">>
PurpleBold == <<"1", ";", "3", "5">>

\* Style::paint: the text between the style's prefix and the reset
paint(style, text) == <<CSI>> \o style \o <<"m">> \o text \o RESET

\* the text with the escape sequences removed, whole or cut short
RECURSIVE StripFrom(_, _)
StripFrom(text, esc) ==
    IF text = << >> THEN << >>
    ELSE IF esc THEN StripFrom(Tail(text), Head(text) # "m")
    ELSE IF Head(text) = CSI THEN StripFrom(Tail(text), TRUE)
    ELSE <<Head(text)>> \o StripFrom(Tail(text), FALSE)

Strip(text) == StripFrom(text, FALSE)

----------------------------------------------------------------------------
(* The output sink. f.failAt is the first write call that fails (0: none   *)
(* does); with f.sticky every later call fails too, otherwise only that    *)
(* one. The sink counts its calls (f.calls) and the failed ones (f.fails); *)
(* f.failed and f.kept are the first failed call and the length of the     *)
(* text at that moment, f.last and f.lastkept the same for the latest      *)
(* failed call. f.dropped counts the failures the field renderer did not   *)
(* return. A writer that is no longer ok is returned unchanged: that is    *)
(* the `?` after each write, which leaves the function at the failure.     *)

Sink(failAt, sticky) ==
    [buf |-> << >>, calls |-> 0, ok |-> TRUE, failAt |-> failAt,
     sticky |-> sticky, fails |-> 0, dropped |-> 0, failed |-> 0, kept |-> 0,
     last |-> 0, lastkept |-> 0]

\* whether the sink fails its next write call
Fails(w) ==
    /\ w.failAt # 0
    /\ \/ w.calls + 1 = w.failAt
       \/ w.sticky /\ w.calls + 1 > w.failAt

\* the sink after a write call that it failed
Failed(w) ==
    [w EXCEPT !.calls = w.calls + 1, !.fails = w.fails + 1,
              !.failed = IF w.failed = 0 THEN w.calls + 1 ELSE w.failed,
              !.kept = IF w.failed = 0 THEN Len(w.buf) ELSE w.kept,
              !.last = w.calls + 1, !.lastkept = Len(w.buf)]

\* a plausible slip: the result of the write is not looked at
write_str_unchecked(w, piece) ==
    IF ~w.ok THEN w
    ELSE IF Fails(w) THEN Failed(w)
    ELSE [w EXCEPT !.calls = w.calls + 1, !.buf = w.buf \o piece]

\* one write call on the sink, followed by `?`
write_str(w, piece) ==
    IF ~w.ok THEN w
    ELSE IF Fails(w) THEN [Failed(w) EXCEPT !.ok = FALSE]
    ELSE [w EXCEPT !.calls = w.calls + 1, !.buf = w.buf \o piece]

\* the codes of a style's prefix: one write call for each code and for each
\* semicolon between two codes
RECURSIVE write_codes(_, _, _)
write_codes(w, codes, run) ==
    IF codes = << >> THEN write_str(w, run)
    ELSE IF Head(codes) = ";"
        THEN write_codes(write_str(write_str(w, run), <<";">>), Tail(codes), << >>)
        ELSE write_codes(w, Tail(codes), Append(run, Head(codes)))

\* Display of a painted string: the introducer, the codes, the letter m, the
\* text, the reset; one write call each
write_painted(w, painted) ==
    LET m == CHOOSE k \in 1..Len(painted) :
                /\ painted[k] = "m"
                /\ \A i \in 1..(k - 1) : painted[i] # "m"
        codes == SubSeq(painted, 2, m - 1)
        text == SubSeq(painted, m + 1, Len(painted) - Len(RESET))
        w1 == write_str(write_codes(write_str(w, <<CSI>>), codes, << >>), <<"m">>)
    IN  write_str(write_str(w1, text), RESET)

----------------------------------------------------------------------------
(* EventFormatter *)

\* chrono's "%H:%M:%S%.3f"
strftime(t) == Pad(t.h, 2) \o <<":">> \o Pad(t.m, 2) \o <<":">> \o Pad(t.s, 2)
               \o <<".">> \o Pad(t.ms, 3)

\* EventFormatter::time
time(self, t) == IF self.verbose THEN Some(strftime(t)) ELSE None

\* a plausible slip: one tag differs from the level's name
level_warn(e) ==
    Some(CASE e.level = "ERROR" -> paint(RedBold, <<"e", "r", "r", "o", "r", ":">>)
           [] e.level = "WARN" -> paint(YellowBold, <<"w", "a", "r", "n", ":">>)
           [] e.level = "INFO" -> paint(GreenBold, <<"i", "n", "f", "o", ":">>)
           [] e.level = "DEBUG" -> paint(BlueBold, <<"d", "e", "b", "u", "g", ":">>)
           [] e.level = "TRACE" -> paint(PurpleBold, <<"t", "r", "a", "c", "e", ":">>))

\* EventFormatter::level
level(e) ==
    Some(CASE e.level = "ERROR" -> paint(RedBold, <<"e", "r", "r", "o", "r", ":">>)
           [] e.level = "WARN" ->
                paint(YellowBold, <<"w", "a", "r", "n", "i", "n", "g", ":">>)
           [] e.level = "INFO" -> paint(GreenBold, <<"i", "n", "f", "o", ":">>)
           [] e.level = "DEBUG" -> paint(BlueBold, <<"d", "e", "b", "u", "g", ":">>)
           [] e.level = "TRACE" -> paint(PurpleBold, <<"t", "r", "a", "c", "e", ":">>))

\* EventFormatter::module
module(self, e) ==
    IF ~self.verbose THEN None
    ELSE IF e.module_path = None THEN None
    ELSE IF e.module_path[1] = self.root THEN None
    ELSE IF starts_with(e.module_path[1], self.root)
        THEN LET module_path == get_from(e.module_path[1], Len(self.root) + 2) IN
             IF module_path = None THEN None
             ELSE Some(paint(Bold, module_path[1]))
        ELSE Some(paint(Bold, e.module_path[1]))

\* EventFormatter::file
file(e) == IF e.file = None THEN None ELSE split_last(e.file[1])

\* a plausible slip: the colon is written whenever the file segment is
write_context_colon(w, mod, fil, line) ==
    LET w1 == IF mod # None THEN write_painted(w, mod[1]) ELSE w
        both == fil # None /\ line # None
        w2 == IF both
                THEN write_str(write_str(write_str(write_str(w1, <<":">>),
                               fil[1]), <<":">>), Dec(line[1]))
                ELSE w1
        seen == mod # None \/ both
    IN  IF seen THEN write_str(w2, <<" ">>) ELSE w2

\* EventFormatter::write_context
write_context(w, mod, fil, line) ==
    LET w1 == IF mod # None THEN write_painted(w, mod[1]) ELSE w
        both == fil # None /\ line # None
        w2 == IF both
                THEN LET w2a == IF mod # None THEN write_str(w1, <<":">>) ELSE w1
                     IN  write_str(write_str(write_str(w2a, fil[1]), <<":">>),
                                   Dec(line[1]))
                ELSE w1
        seen == mod # None \/ both
    IN  IF seen THEN write_str(w2, <<" ">>) ELSE w2

----------------------------------------------------------------------------
(* The span registry behind FmtContext: each live span's name and parent.  *)
(* An id outside its domain does not resolve.                              *)

Registry ==
    (1 :> [name |-> <<"o", "u", "t", "e", "r">>, parent |-> None]) @@
    (2 :> [name |-> <<"i", "n", "n", "e", "r">>, parent |-> Some(1)]) @@
    (3 :> [name |-> <<"j", "o", "b">>, parent |-> None])

\* FmtContext::span
ctx_span(id) == IF id \in DOMAIN Registry THEN Some(id) ELSE None

\* SpanRef::from_root: the parents of a span, from the root of the tree down
RECURSIVE from_root(_)
from_root(id) ==
    IF Registry[id].parent = None THEN << >>
    ELSE from_root(Registry[id].parent[1]) \o <<Registry[id].parent[1]>>

\* a plausible slip: the ambient span is looked up first
resolve_span_current_first(cur, span) ==
    IF cur # None THEN cur
    ELSE IF span = None THEN None ELSE ctx_span(span[1])

\* write_span: span.and_then(|id| ctx.span(id)).or_else(|| ctx.lookup_current())
resolve_span(cur, span) ==
    LET declared == IF span = None THEN None ELSE ctx_span(span[1]) IN
    IF declared # None THEN declared ELSE cur

\* a plausible slip: the span itself is put before its parents
scope_self_first(start) ==
    IF start = None THEN << >> ELSE <<start[1]>> \o from_root(start[1])

\* write_span: span.from_root().chain(iter::once(span)), for the span if any
scope(start) ==
    IF start = None THEN << >> ELSE from_root(start[1]) \o <<start[1]>>

\* write_span: the loop over the scope
RECURSIVE write_names(_, _, _)
write_names(w, ids, seen) ==
    IF ids = << >> THEN w
    ELSE LET w1 == IF seen THEN write_str(w, <<":">>) ELSE w
             w2 == write_painted(w1, paint(Bold, Registry[Head(ids)].name))
         IN  write_names(w2, Tail(ids), TRUE)

\* EventFormatter::write_span
write_span(w, cur, span) ==
    LET sc == scope(resolve_span(cur, span))
        w1 == write_names(w, sc, FALSE)
    IN  IF sc # << >> THEN write_str(w1, <<" ">>) ELSE w1

\* FmtContext::format_fields. The field renderer is the subscriber's, not
\* the formatter's: an event carries the write calls its renderer makes on
\* the sink, in order, each with the text it writes and whether the renderer
\* drops a failure of that call instead of returning it. The renderer stops
\* at the first failure it does not drop and returns it.
RECURSIVE format_fields_from(_, _)
format_fields_from(w, writes) ==
    IF writes = << >> \/ ~w.ok THEN w
    ELSE LET w1 == write_str(w, Head(writes).text)
             w2 == IF Head(writes).dropped /\ ~w1.ok
                     THEN [w1 EXCEPT !.ok = TRUE, !.dropped = w1.dropped + 1]
                     ELSE w1
         IN  format_fields_from(w2, Tail(writes))

format_fields(w, e) == format_fields_from(w, e.fields)

----------------------------------------------------------------------------
(* Inputs *)

app == <<"a", "p", "p">>

Roots == {app}

FilterExprs == {<<"a", "p", "p", "=", "d", "e", "b", "u", "g">>}

ModulePaths ==
    { app,
      <<"a", "p", "p", ":", ":", "s", "u", "b", ":", ":", "m", "o", "d">>,
      <<"a", "p", "p", "l", "e", ":", ":", "m", "o", "d">>,
      <<"a", "p", "p", "x">>,
      <<"o", "t", "h", "e", "r", ":", ":", "m", "o", "d">> }

FilePaths == { <<"/", "a", "/", "b", "/", "c", ".", "e", "x", "t">>,
               <<"m", "a", "i", "n", ".", "r", "s">> }

LineNumbers == {42}

Levels == {"ERROR", "WARN", "INFO", "DEBUG", "TRACE"}

\* a write call of the field renderer whose failure it returns
Piece(text) == [text |-> text, dropped |-> FALSE]

\* the space the default renderer writes between two fields: the result of
\* this write is overwritten by that of the field that follows
Separator == [text |-> <<" ">>, dropped |-> TRUE]

\* the write calls of the default renderer for the fields msg = "hello",
\* n = "x" (two strings without a character that Debug escapes): for each
\* field the name, the equals sign, and the quoted value in three calls
msg_hello_n_x ==
    << Piece(<<"m", "s", "g">>), Piece(<<"=">>), Piece(<<"\"">>),
       Piece(<<"h", "e", "l", "l", "o">>), Piece(<<"\"">>),
       Separator,
       Piece(<<"n">>), Piece(<<"=">>), Piece(<<"\"">>), Piece(<<"x">>),
       Piece(<<"\"">>) >>

\* the fields of the events, as write calls: an event without fields, and
\* the event with msg = "hello", n = "x"
FieldLists == { << >>, msg_hello_n_x }

\* ids an event may declare as its parent: a live span, and one that is gone
ParentIds == {2, 9}

\* ids of the spans that may be the active one
CurrentIds == {2, 3}

Clock == { [h |-> 9, m |-> 5, s |-> 3, ms |-> 7] }

Opt(S) == {None} \cup {Some(x) : x \in S}

Events ==
    [ level : Levels, module_path : Opt(ModulePaths), file : Opt(FilePaths),
      line : Opt(LineNumbers), parent : Opt(ParentIds), fields : FieldLists ]

Verbosities(n) ==
    [ quiet : 0..n, verbose : 0..n, log_filters : Opt(FilterExprs) ]

----------------------------------------------------------------------------
(* State *)

NoSegs == [module |-> None, file |-> None, start |-> None]

Idle ==
    /\ event = None
    /\ current = None
    /\ now = None
    /\ f = Sink(0, FALSE)
    /\ segs = NoSegs
    /\ steps = << >>
    /\ result = None

InitWith(n) ==
    /\ debug_assertions \in BOOLEAN
    /\ verbosity \in Verbosities(n)
    /\ root_module \in Roots
    /\ decision = None
    /\ formatter = None
    /\ pc = "start"
    /\ Idle

\* the process before init, with few occurrences of each flag
Init == InitWith(MaxFlag)

\* the process before init, with every occurrence count a u8 holds
InitU8 == InitWith(U8_MAX)

\* pub fn init
init ==
    /\ pc = "start"
    /\ LET verbose_format == debug_assertions \/ verbosity.verbose # 0 IN
       formatter' = Some(new(root_module, verbose_format))
    /\ decision' = Some(Filter(verbosity))
    /\ pc' = "idle"
    /\ UNCHANGED <<debug_assertions, verbosity, root_module, event, current,
                   now, f, segs, steps, result>>

\* the filter layer: a LevelFilter passes the levels up to its own; what an
\* EnvFilter expression passes is not decided here
enabled(d, e) ==
    \/ d.kind = "Expression"
    \/ d.kind = "Threshold" /\ Ord(e.level) <= Ord(d.level)

\* the fmt layer calls format_event for an event the filter passed
Call ==
    /\ pc = "idle"
    /\ \E e \in Events, cur \in Opt(CurrentIds), t \in Clock, k \in 0..MaxFail,
          sticky \in BOOLEAN :
        /\ k = 0 => ~sticky
        /\ enabled(decision[1], e)
        /\ event' = Some(e)
        /\ current' = cur
        /\ now' = Some(t)
        /\ f' = Sink(k, sticky)
    /\ segs' = NoSegs
    /\ steps' = << >>
    /\ result' = None
    /\ pc' = "time"
    /\ UNCHANGED <<debug_assertions, verbosity, root_module, decision, formatter>>

\* one step of format_event took the sink from f to w: `?` returns the error,
\* otherwise control passes to the next step
Step(name, w, next) ==
    /\ f' = w
    /\ steps' = IF w.calls > f.calls
                  THEN Append(steps, [seg |-> name,
                                      text |-> SubSeq(w.buf, Len(f.buf) + 1, Len(w.buf))])
                  ELSE steps
    /\ pc' = IF w.ok THEN next ELSE "done"
    /\ result' = IF ~w.ok THEN Some("Err")
                 ELSE IF next = "done" THEN Some("Ok") ELSE None
    /\ UNCHANGED <<debug_assertions, verbosity, root_module, decision, formatter,
                   event, current, now>>

\* format_event: if let Some(time) = self.time() { write!(f, "{} ", time)?; }
WriteTime ==
    /\ pc = "time"
    /\ LET t == time(formatter[1], now[1]) IN
       Step("time",
            IF t # None THEN write_str(write_str(f, t[1]), <<" ">>) ELSE f,
            "context")
    /\ UNCHANGED segs

\* format_event: Self::write_context(f, self.module(e), self.file(e), line)?
WriteContext ==
    /\ pc = "context"
    /\ LET mod == module(formatter[1], event[1])
           fil == file(event[1])
       IN  /\ segs' = [segs EXCEPT !.module = mod, !.file = fil]
           /\ Step("context", write_context(f, mod, fil, event[1].line), "span")

\* format_event: if self.verbose { self.write_span(f, ctx, e.parent())?; }
WriteSpan ==
    /\ pc = "span"
    /\ IF formatter[1].verbose
         THEN /\ segs' = [segs EXCEPT !.start = resolve_span(current, event[1].parent)]
              /\ Step("span", write_span(f, current, event[1].parent), "level")
         ELSE /\ segs' = segs
              /\ Step("span", f, "level")

\* format_event: if let Some(level) = self.level(e) { write!(f, "{} ", level)?; }
WriteLevel ==
    /\ pc = "level"
    /\ LET l == level(event[1]) IN
       Step("level",
            IF l # None THEN write_str(write_painted(f, l[1]), <<" ">>) ELSE f,
            "fields")
    /\ UNCHANGED segs

\* format_event: ctx.format_fields(f, e)?
WriteFields ==
    /\ pc = "fields"
    /\ Step("fields", format_fields(f, event[1]), "newline")
    /\ UNCHANGED segs

\* format_event: writeln!(f)
WriteNewline ==
    /\ pc = "newline"
    /\ Step("newline", write_str(f, <<"\n">>), "done")
    /\ UNCHANGED segs

\* format_event has returned; the formatter keeps nothing of the call
Return ==
    /\ pc = "done"
    /\ pc' = "idle"
    /\ event' = None
    /\ current' = None
    /\ now' = None
    /\ f' = Sink(0, FALSE)
    /\ segs' = NoSegs
    /\ steps' = << >>
    /\ result' = None
    /\ UNCHANGED <<debug_assertions, verbosity, root_module, decision, formatter>>

Next ==
    \/ init
    \/ Call
    \/ WriteTime
    \/ WriteContext
    \/ WriteSpan
    \/ WriteLevel
    \/ WriteFields
    \/ WriteNewline
    \/ Return

Spec == Init /\ [][Next]_vars

\* init alone, on every pair of occurrence counts
NextInit == init

SpecInit == InitU8 /\ [][NextInit]_vars

----------------------------------------------------------------------------
(* Vocabulary of the properties *)

StepNames == <<"time", "context", "span", "level", "fields", "newline">>

\* position of a step of format_event in the order the contract gives
SegOrd(name) == CHOOSE i \in 1..Len(StepNames) : StepNames[i] = name

\* the step `name` of the current call has run and every write of it succeeded
Acted(name) ==
    /\ f.ok
    /\ \/ pc = "done"
       \/ /\ pc \in {StepNames[i] : i \in 1..Len(StepNames)}
          /\ SegOrd(pc) > SegOrd(name)

HasStep(name) == \E i \in 1..Len(steps) : steps[i].seg = name

\* what the step `name` wrote, escape sequences removed; empty if it wrote nothing
StepText(name) ==
    IF HasStep(name)
        THEN Strip(steps[CHOOSE i \in 1..Len(steps) : steps[i].seg = name].text)
        ELSE << >>

Succeeded == pc = "done" /\ result = Some("Ok")

Verbose == formatter # None /\ formatter[1].verbose

\* the severity tags of the contract
TagText(l) ==
    CASE l = "ERROR" -> <<"e", "r", "r", "o", "r", ":">>
      [] l = "WARN" -> <<"w", "a", "r", "n", "i", "n", "g", ":">>
      [] l = "INFO" -> <<"i", "n", "f", "o", ":">>
      [] l = "DEBUG" -> <<"d", "e", "b", "u", "g", ":">>
      [] l = "TRACE" -> <<"t", "r", "a", "c", "e", ":">>

\* the bare filename of a path: its longest suffix free of separators
BareName(path) ==
    LET n == Len(path)
        k == CHOOSE j \in 0..n :
                /\ \A i \in (n - j + 1)..n : path[i] # "/"
                /\ j = n \/ path[n - j] = "/"
    IN  SubSeq(path, n - k + 1, n)

\* the file segment of the contract: <bare filename>:<line>, if both exist
FileSegment(e) ==
    IF e.file # None /\ e.line # None
        THEN Some(BareName(e.file[1]) \o <<":">> \o Dec(e.line[1]))
        ELSE None

a_b_c_ext == <<"/", "a", "/", "b", "/", "c", ".", "e", "x", "t">>
c_ext_42 == <<"c", ".", "e", "x", "t", ":", "4", "2">>
outer_inner == <<"o", "u", "t", "e", "r", ":", "i", "n", "n", "e", "r", " ">>

----------------------------------------------------------------------------
(* Verbosity -> LevelFilter: properties, under SpecInit *)

\* the table of the contract, on plain integers
LevelOf(quiet, verbose, default) ==
    IF default + verbose > 255 THEN "TRACE"
    ELSE IF quiet > default + verbose THEN "OFF"
    ELSE LET diff == default + verbose - quiet IN
         CASE diff = 0 -> "OFF"
           [] diff = 1 -> "ERROR"
           [] diff = 2 -> "WARN"
           [] diff = 3 -> "INFO"
           [] diff = 4 -> "DEBUG"
           [] diff = 5 -> "TRACE"
           [] diff >= 6 -> "TRACE"

\* C1: with no filter expression, the filter init installs is the threshold the
\* table gives for (quiet, verbose, default): TRACE on overflow of default +
\* verbose, else OFF when quiet exceeds the sum, else by the difference; and
\* (0,0,2) -> WARN, (0,0,4) -> DEBUG, (10,0,2) -> OFF, (0,10,2) -> TRACE.
C1_LevelTable ==
    (pc # "start" /\ verbosity.log_filters = None) =>
        LET q == verbosity.quiet
            v == verbosity.verbose
            d == IF debug_assertions THEN 4 ELSE 2
            got == decision[1]
        IN  /\ got = Threshold(LevelOf(q, v, d))
            /\ (q = 0 /\ v = 0 /\ d = 2) => got.level = "WARN"
            /\ (q = 0 /\ v = 0 /\ d = 4) => got.level = "DEBUG"
            /\ (q = 10 /\ v = 0 /\ d = 2) => got.level = "OFF"
            /\ (q = 0 /\ v = 10 /\ d = 2) => got.level = "TRACE"

\* init has run on counts whose sum overflows while quiet is maximal
C1_Witness ==
    /\ pc = "idle"
    /\ verbosity = [quiet |-> 255, verbose |-> 252, log_filters |-> None]
    /\ debug_assertions
    /\ decision = Some(Threshold("TRACE"))

\* C2: with a filter expression, init installs Expression(expr) whatever the
\* counts are; no threshold is derived from them.
C2_ExpressionBypassesCounts ==
    (pc # "start" /\ verbosity.log_filters # None) =>
        decision = Some(Expression(verbosity.log_filters[1]))

\* init has run with a filter expression and quiet = verbose = 5
C2_Witness ==
    /\ pc = "idle"
    /\ verbosity.quiet = 5 /\ verbosity.verbose = 5
    /\ verbosity.log_filters # None
    /\ decision[1].kind = "Expression"

\* C3: for default 2 and 4, the threshold init resolved is no higher than the
\* one any larger verbose count gives with the same quiet, and no lower than
\* the one any larger quiet count gives with the same verbose.
C3_Monotone ==
    (pc # "start" /\ verbosity.log_filters = None) =>
        /\ \A v2 \in verbosity.verbose..U8_MAX :
              Ord(decision[1].level) <= Ord(Into([verbosity EXCEPT !.verbose = v2]))
        /\ \A q2 \in verbosity.quiet..U8_MAX :
              Ord(decision[1].level) >= Ord(Into([verbosity EXCEPT !.quiet = q2]))

\* init resolved OFF at the underflow clamp, one verbose short of the overflow
C3_Witness ==
    /\ pc = "idle"
    /\ ~debug_assertions
    /\ verbosity = [quiet |-> 255, verbose |-> 253, log_filters |-> None]
    /\ decision = Some(Threshold("OFF"))
    /\ Into([verbosity EXCEPT !.verbose = 254]) = "TRACE"

----------------------------------------------------------------------------
(* EventFormatter: properties, under Spec *)

\* C4: in non-verbose mode every formatted line is exactly the severity tag,
\* one space, the field text (as the field renderer wrote it) and a newline,
\* whatever module path, file, line and spans the event has.
C4_NonVerboseTagAndFieldsOnly ==
    (Succeeded /\ ~Verbose) =>
        Strip(f.buf) = TagText(event[1].level) \o <<" ">> \o StepText("fields")
                       \o <<"\n">>

\* the module segment of the contract for module path m (an Option) and root r
ModuleSegment(m, r) ==
    IF m = None \/ m = Some(r) THEN None
    ELSE IF starts_with(m[1], r \o <<":", ":">>)
        THEN Some(SubSeq(m[1], Len(r) + 3, Len(m[1])))
        ELSE m

\* C5: in verbose mode the module segment is omitted if the module path is
\* missing or equals the root, is the remainder after root + "::" if the path
\* starts with root + "::", and is the full path in every other case (also
\* when the path only shares the root as a string prefix).
C5_ModuleSegment ==
    (Acted("context") /\ Verbose) =>
        /\ segs.module = None <=> ModuleSegment(event[1].module_path, root_module) = None
        /\ segs.module # None =>
              Some(Strip(segs.module[1])) =
                  ModuleSegment(event[1].module_path, root_module)

\* C6: the context step writes `M:F ` if the module segment M and the file
\* segment F both exist, `M ` or `F ` if one does, and nothing if neither;
\* F is `<bare filename>:<line>`, and /a/b/c.ext with line 42 gives c.ext:42.
C6_ContextJoin ==
    Acted("context") =>
        LET e == event[1]
            M == IF segs.module = None THEN None ELSE Some(Strip(segs.module[1]))
            F == FileSegment(e)
            text == StepText("context")
        IN  /\ (M # None /\ F # None) => text = M[1] \o <<":">> \o F[1] \o <<" ">>
            /\ (M # None /\ F = None) => text = M[1] \o <<" ">>
            /\ (M = None /\ F # None) => text = F[1] \o <<" ">>
            /\ (M = None /\ F = None) => ~HasStep("context")
            /\ (e.file = Some(a_b_c_ext) /\ e.line = Some(42)) => F = Some(c_ext_42)
            /\ (e.file = None \/ e.line = None) <=> F = None
            /\ segs.file # None /\ F # None => F[1] = segs.file[1] \o <<":">> \o Dec(e.line[1])

\* the context step wrote a module segment joined to c.ext:42
C6_Witness ==
    /\ pc = "span" /\ f.ok
    /\ segs.module # None
    /\ StepText("context") =
          <<"s", "u", "b", ":", ":", "m", "o", "d", ":">> \o c_ext_42 \o <<" ">>

\* the ids from the root of the tree down to id: each the parent of the next
PathTo(id) ==
    CHOOSE p \in UNION {[1..n -> DOMAIN Registry] : n \in 1..Cardinality(DOMAIN Registry)} :
        /\ p[Len(p)] = id
        /\ Registry[p[1]].parent = None
        /\ \A i \in 1..(Len(p) - 1) : Registry[p[i + 1]].parent = Some(p[i])

\* the names of the spans, joined by single colons
RECURSIVE JoinNames(_)
JoinNames(ids) ==
    IF ids = << >> THEN << >>
    ELSE IF Len(ids) = 1 THEN Registry[ids[1]].name
    ELSE Registry[ids[1]].name \o <<":">> \o JoinNames(Tail(ids))

\* C7: in verbose mode, when a starting span resolved, the span step writes
\* the names from the root down to that span, joined by single colons and
\* followed by one space, once and before the severity tag; with no span, or
\* when not verbose, it writes nothing.
C7_SpanChain ==
    Acted("span") =>
        /\ (Verbose /\ segs.start # None) =>
              StepText("span") = JoinNames(PathTo(segs.start[1])) \o <<" ">>
        /\ (~Verbose \/ segs.start = None) => ~HasStep("span")
        /\ Cardinality({i \in 1..Len(steps) : steps[i].seg = "span"}) <= 1
        /\ \A i, j \in 1..Len(steps) :
              (steps[i].seg = "span" /\ steps[j].seg = "level") => i < j
        /\ (Verbose /\ event[1].parent = None /\ current = Some(2)) =>
              StepText("span") = outer_inner

\* a verbose call returned Ok for an event inside inner, the child of outer
C7_Witness ==
    /\ Succeeded /\ Verbose
    /\ event[1].parent = None /\ current = Some(2)
    /\ StepText("span") = outer_inner
    /\ HasStep("level")

\* C8: the steps that wrote did so in the order time, context, span, level,
\* fields, newline, none of them twice; a call that returned Ok wrote the
\* severity tag of the event's level and one space, in either mode, and its
\* last write was the newline step's, a single line feed; the line is what
\* the steps wrote, in that order.
C8_FixedOrder ==
    /\ \A i, j \in 1..Len(steps) : i < j => SegOrd(steps[i].seg) < SegOrd(steps[j].seg)
    /\ Succeeded =>
          /\ StepText("level") = TagText(event[1].level) \o <<" ">>
          /\ steps[Len(steps)] = [seg |-> "newline", text |-> <<"\n">>]
          /\ f.buf[Len(f.buf)] = "\n"
          /\ Strip(f.buf) = StepText("time") \o StepText("context") \o StepText("span")
                            \o StepText("level") \o StepText("fields")
                            \o StepText("newline")

\* a verbose call returned Ok having written all six segments of a WARN event
C8_Witness ==
    /\ Succeeded /\ Verbose
    /\ event[1].level = "WARN"
    /\ Len(steps) = 6
    /\ StepText("level") = <<"w", "a", "r", "n", "i", "n", "g", ":", " ">>

ChainText(start) ==
    IF start = None THEN << >> ELSE JoinNames(PathTo(start[1])) \o <<" ">>

\* C10, as claimed: the starting span is the declared parent whenever the
\* event declares one, the active span only when it declares none, and the
\* segment is empty only when neither exists.
C10_DeclaredParentAlwaysWins ==
    (Acted("span") /\ Verbose) =>
        /\ event[1].parent # None => segs.start = event[1].parent
        /\ event[1].parent = None => segs.start = current
        /\ ~HasStep("span") => (event[1].parent = None /\ current = None)

\* C10, amended: the starting span is the declared parent whenever the event
\* declares one that resolves in the span registry; the active span is used
\* for an event that declares no parent or whose declared parent does not
\* resolve; the segment is empty only when neither resolves. So for an event
\* whose declared parent resolves, the segment is the chain of that parent,
\* whichever span is active.
C10_ResolvedParentWins ==
    (Acted("span") /\ Verbose) =>
        LET p == event[1].parent
            resolves == p # None /\ p[1] \in DOMAIN Registry
        IN  /\ resolves => /\ segs.start = p
                           /\ StepText("span") = ChainText(p)
            /\ ~resolves => /\ segs.start = current
                            /\ StepText("span") = ChainText(current)
            /\ ~HasStep("span") <=> (~resolves /\ current = None)

\* a verbose call rendered the chain of the declared parent inner while the
\* unrelated span job was the active one
C10_Witness ==
    /\ Acted("span") /\ Verbose
    /\ event[1].parent = Some(2) /\ current = Some(3)
    /\ StepText("span") = outer_inner

====
